---- MODULE Spec2Model ----
(***************************************************************************)
(* Model of iio-fifo-viewer.py: the sysfs-described record layout, the     *)
(* record decoder IioInfo.decorate, the chunk size IioInfo.get_chunk_size  *)
(* and the read loop of view_fifo over ChunkReader.                        *)
(*                                                                         *)
(* Python strings are sequences of one-character strings, so that         *)
(* slicing, find and the lexicographic comparison of str are computed as   *)
(* Python computes them.  Python's unbounded integers are kept as          *)
(* WideLen-byte two's complement numbers, least significant byte first     *)
(* ("wide" numbers): a 64 bit sample plus an offset times a scale fits.    *)
(* offset and scale are restricted to integer-valued decimal strings, on   *)
(* which float arithmetic is exact below 2^53; rounding of doubles beyond  *)
(* that is not modelled.                                                   *)
(***************************************************************************)
EXTENDS Integers, Sequences, FiniteSets, TLC

\* ---------------------------------------------------------------- bounds
\* bytes of a wide number
WideLen == 10
\* the longest device file has MaxRecords * 8 + 2 bytes
MaxRecords == 2
\* rows, delivered chunks and decode calls are recorded up to MaxLog
MaxLog == 3
\* the scan elements whose _en file holds 0 are at most MaxDisabled
MaxDisabled == 1

\* the value None of Python
None == << "None" >>

\* ------------------------------------------------------ Python strings
\* ord() of the characters that are compared
Ord(c) ==
    CASE c = "\n" -> 10
      [] c = "-" -> 45
      [] c = "0" -> 48
      [] c = "1" -> 49
      [] c = "2" -> 50
      [] c = "3" -> 51
      [] c = "4" -> 52
      [] c = "5" -> 53
      [] c = "6" -> 54
      [] c = "7" -> 55
      [] c = "8" -> 56
      [] c = "9" -> 57

\* the index i of a slice bound, as Python normalises it for a length n
SliceBound(i, n) ==
    LET j == IF i < 0 THEN i + n ELSE i
    IN  IF j < 0 THEN 0 ELSE IF j > n THEN n ELSE j

\* s[a:b]
PySlice(s, a, b) ==
    LET lo == SliceBound(a, Len(s))
        hi == SliceBound(b, Len(s))
    IN  IF lo >= hi THEN << >> ELSE SubSeq(s, lo + 1, hi)

\* s.find(c): the 0-based position of the first c, -1 when there is none
PyFind(s, c) ==
    IF \E i \in 1..Len(s) : s[i] = c
    THEN (CHOOSE i \in 1..Len(s) : s[i] = c /\ \A j \in 1..(i - 1) : s[j] # c) - 1
    ELSE -1

\* str.__lt__: lexicographic on the character codes, a proper prefix first
RECURSIVE StrLt(_, _)
StrLt(a, b) ==
    IF b = << >> THEN FALSE
    ELSE IF a = << >> THEN TRUE
    ELSE IF Ord(Head(a)) # Ord(Head(b)) THEN Ord(Head(a)) < Ord(Head(b))
    ELSE StrLt(Tail(a), Tail(b))

\* the digits of a decimal string, most significant first, as a number
RECURSIVE Digits(_, _)
Digits(s, acc) ==
    IF s = << >> THEN acc
    ELSE Digits(Tail(s), acc * 10 + (Ord(Head(s)) - 48))

\* float(s) of an integer-valued decimal string: surrounding whitespace
\* (the newline readline keeps) is stripped, a leading "-" negates
PyFloat(s) ==
    LET t == IF s # << >> /\ s[Len(s)] = "\n" THEN SubSeq(s, 1, Len(s) - 1) ELSE s
    IN  IF t # << >> /\ Head(t) = "-" THEN 0 - Digits(Tail(t), 0) ELSE Digits(t, 0)

\* ------------------------------------------------------- wide numbers
\* the small integer n as a wide number of k bytes
RECURSIVE WideOf(_, _)
WideOf(n, k) ==
    IF k = 0 THEN << >> ELSE << n % 256 >> \o WideOf(n \div 256, k - 1)

Wide(n) == WideOf(n, WideLen)

RECURSIVE WAddFrom(_, _, _, _)
WAddFrom(a, b, i, carry) ==
    IF i > Len(a) THEN << >>
    ELSE LET s == a[i] + b[i] + carry
         IN  << s % 256 >> \o WAddFrom(a, b, i + 1, s \div 256)

\* a + b
WAdd(a, b) == WAddFrom(a, b, 1, 0)

\* -a
WNeg(a) == WAdd([i \in 1..Len(a) |-> 255 - a[i]], WideOf(1, Len(a)))

RECURSIVE WMulFrom(_, _, _, _)
WMulFrom(a, k, i, carry) ==
    IF i > Len(a) THEN << >>
    ELSE LET p == a[i] * k + carry
         IN  << p % 256 >> \o WMulFrom(a, k, i + 1, p \div 256)

\* a * k for a small integer k
WMul(a, k) == IF k < 0 THEN WNeg(WMulFrom(a, 0 - k, 1, 0)) ELSE WMulFrom(a, k, 1, 0)

\* ------------------------------------------------------------ helpers
TIMESTAMP_ALIGNMENT == 64 \div 8

\* inttypes with a default of one unsigned byte
inttypesDefaultByte(valtyp) ==
    CASE valtyp = << "0" >> -> << "x", 0 >>
      [] valtyp = << "s", "8" >> -> << "b", 1 >>
      [] valtyp = << "u", "8" >> -> << "B", 1 >>
      [] valtyp = << "s", "1", "6" >> -> << "h", 2 >>
      [] valtyp = << "u", "1", "6" >> -> << "H", 2 >>
      [] valtyp = << "s", "3", "2" >> -> << "i", 4 >>
      [] valtyp = << "u", "3", "2" >> -> << "I", 4 >>
      [] valtyp = << "s", "6", "4" >> -> << "q", 8 >>
      [] valtyp = << "u", "6", "4" >> -> << "Q", 8 >>
      [] OTHER -> << "B", 1 >>

\* the table inttypes of type_to_unpack, looked up with its default
inttypes(valtyp) ==
    CASE valtyp = << "0" >> -> << "x", 0 >>
      [] valtyp = << "s", "8" >> -> << "b", 1 >>
      [] valtyp = << "u", "8" >> -> << "B", 1 >>
      [] valtyp = << "s", "1", "6" >> -> << "h", 2 >>
      [] valtyp = << "u", "1", "6" >> -> << "H", 2 >>
      [] valtyp = << "s", "3", "2" >> -> << "i", 4 >>
      [] valtyp = << "u", "3", "2" >> -> << "I", 4 >>
      [] valtyp = << "s", "6", "4" >> -> << "q", 8 >>
      [] valtyp = << "u", "6", "4" >> -> << "Q", 8 >>
      [] OTHER -> << "x", 0 >>

\* type_to_unpack(typ): the struct format (byte order, character) and the width
type_to_unpack(typ) ==
    LET ret == IF PySlice(typ, 0, 2) = << "b", "e" >> THEN ">" ELSE "<"
        valtyp == PySlice(typ, PyFind(typ, ":") + 1, PyFind(typ, "/"))
        entry == inttypes(valtyp)
    IN  << << ret, entry[1] >>, entry[2] >>

\* align that drops the remainder instead of rounding up
alignDown(value, alignment) == (value \div alignment) * alignment

\* align(value, alignment)
align(value, alignment) ==
    LET floor == value \div alignment
        remainder == value % alignment
    IN  (floor + (IF remainder > 0 THEN 1 ELSE 0)) * alignment

\* struct.calcsize of a format with an explicit byte order
calcsize(fmt) ==
    CASE fmt[2] \in {"b", "B", "x"} -> 1
      [] fmt[2] \in {"h", "H"} -> 2
      [] fmt[2] \in {"i", "I"} -> 4
      [] fmt[2] \in {"q", "Q"} -> 8

\* struct.unpack(fmt, s)[0] for a string s of calcsize(fmt) bytes
unpack(fmt, s) ==
    LET n == Len(s)
        le == IF fmt[1] = ">" THEN [i \in 1..n |-> s[n + 1 - i]] ELSE s
        signed == fmt[2] \in {"b", "h", "i", "q"}
        fill == IF signed /\ le[n] >= 128 THEN 255 ELSE 0
    IN  [i \in 1..WideLen |-> IF i <= n THEN le[i] ELSE fill]

\* ------------------------------------------------------------ channels
\* IioChannel.__init__ on the lines read from sysfs; offset and scale are
\* None when no file matches and default to 0 and 1 (kept as "0" and "1":
\* float(0) = float("0"))
IioChannel(name, en, index, typ, offset, scale) ==
    LET tu == type_to_unpack(typ)
    IN  [name |-> name, enabled |-> en, index |-> index, typ |-> typ,
         typ_str |-> tu[1], typ_len |-> tu[2],
         offset |-> IF offset = None THEN << "0" >> ELSE offset,
         scale |-> IF scale = None THEN << "1" >> ELSE scale]

\* IioChannel.__lt__
ChanLt(self, other) == StrLt(self.index, other.index)

\* one insertion of the stable sort: chan goes before the first element
\* that it is less than
RECURSIVE Insert(_, _)
Insert(chan, done) ==
    IF done = << >> THEN << chan >>
    ELSE IF ChanLt(chan, Head(done)) THEN << chan >> \o done
    ELSE << Head(done) >> \o Insert(chan, Tail(done))

\* sorted(self.channel)
RECURSIVE SortFrom(_, _)
SortFrom(todo, done) ==
    IF todo = << >> THEN done ELSE SortFrom(Tail(todo), Insert(Head(todo), done))

sorted(chans) == SortFrom(chans, << >>)

RECURSIVE SumLen(_)
SumLen(chans) == IF chans = << >> THEN 0 ELSE Head(chans).typ_len + SumLen(Tail(chans))

\* IioInfo.get_chunk_size
get_chunk_size(chans) == align(SumLen(chans), TIMESTAMP_ALIGNMENT)

\* the offset added after the scaling
ScaledOffsetLast(chan, rawval) ==
    WAdd(WMul(rawval, PyFloat(chan.scale)), Wide(PyFloat(chan.offset)))

\* (rawval + float(chan.offset)) * float(chan.scale)
Scaled(chan, rawval) == WMul(WAdd(rawval, Wide(PyFloat(chan.offset))), PyFloat(chan.scale))

\* byte_start after lines 123-124 of decorate
StartOf(chan, byte_start) ==
    IF chan.name = "timestamp" THEN align(byte_start, TIMESTAMP_ALIGNMENT) ELSE byte_start

\* byte_end assigned for every channel, of width 0 too
EndOfAlways(chan, start, byte_end) == start + chan.typ_len

\* byte_end after lines 125-128 of decorate: only a channel of non-zero
\* width assigns it
EndOf(chan, start, byte_end) ==
    IF chan.typ_len = 0 THEN byte_end ELSE start + chan.typ_len

\* The loop of IioInfo.decorate over the channels left, with its locals.
\* steps records, per channel, the cursor on entry (byte_start of line 120
\* or 132), byte_start after line 124 and byte_end after line 128.  A
\* struct.error leaves the function without a return value.
RECURSIVE Walk(_, _, _, _, _, _)
Walk(chans, data, byte_start, byte_end, ret, steps) ==
    IF chans = << >> THEN [raised |-> FALSE, ret |-> ret, steps |-> steps]
    ELSE
      LET chan == Head(chans)
          start == StartOf(chan, byte_start)
          end == EndOf(chan, start, byte_end)
          field == PySlice(data, start, end)
          step == [chan |-> chan, cursor |-> byte_start,
                   byte_start |-> start, byte_end |-> end]
      IN  IF chan.typ_len = 0
          THEN Walk(Tail(chans), data, end, end,
                    Append(ret, << chan.name, Wide(0) >>), Append(steps, step))
          ELSE IF Len(field) # calcsize(chan.typ_str)
          THEN [raised |-> TRUE, ret |-> << >>, steps |-> Append(steps, step)]
          ELSE Walk(Tail(chans), data, end, end,
                    Append(ret, << chan.name, Scaled(chan, unpack(chan.typ_str, field)) >>),
                    Append(steps, step))

\* IioInfo.decorate(data)
decorate(chans, data) == Walk(sorted(chans), data, 0, 0, << >>, << >>)

\* -------------------------------------------------------------- inputs
\* the scan elements of the device, in the order os.listdir gives them
ScanNames == << "accel_x", "timestamp", "temp" >>

\* the lines the _index files hold
IndexLines == { << "1", "\n" >>, << "2", "\n" >>, << "1", "0", "\n" >> }

\* the lines the _en files hold
EnLines == { << "0", "\n" >>, << "1", "\n" >> }

\* le:s16/16>>0, be:s8/8>>0, be:u16/16>>0, le:s24/32>>8
AccelTypes ==
    { << "l", "e", ":", "s", "1", "6", "/", "1", "6", ">", ">", "0", "\n" >>,
      << "b", "e", ":", "s", "8", "/", "8", ">", ">", "0", "\n" >>,
      << "b", "e", ":", "u", "1", "6", "/", "1", "6", ">", ">", "0", "\n" >>,
      << "l", "e", ":", "s", "2", "4", "/", "3", "2", ">", ">", "8", "\n" >> }

\* le:s64/64>>0, be:u32/32>>0, le:0/0>>0
TimestampTypes ==
    { << "l", "e", ":", "s", "6", "4", "/", "6", "4", ">", ">", "0", "\n" >>,
      << "b", "e", ":", "u", "3", "2", "/", "3", "2", ">", ">", "0", "\n" >>,
      << "l", "e", ":", "0", "/", "0", ">", ">", "0", "\n" >> }

\* le:u8/8>>0, be:s32/32>>0, be:u64/64>>0
TempTypes ==
    { << "l", "e", ":", "u", "8", "/", "8", ">", ">", "0", "\n" >>,
      << "b", "e", ":", "s", "3", "2", "/", "3", "2", ">", ">", "0", "\n" >>,
      << "b", "e", ":", "u", "6", "4", "/", "6", "4", ">", ">", "0", "\n" >> }

\* the lines the _type file of a scan element may hold
TypeLines(name) ==
    CASE name = "accel_x" -> AccelTypes
      [] name = "timestamp" -> TimestampTypes
      [] name = "temp" -> TempTypes

\* the _offset and _scale lines of a scan element: none, or 10 and 2
Calibrations(name) ==
    IF name # "accel_x" THEN { << None, None >> }
    ELSE { << None, None >>, << << "1", "0", "\n" >>, << "2", "\n" >> >> }

\* what the device file repeats
Patterns == << << 255 >>, << 5, 0, 128 >> >>

\* the lengths of the device file
DevLens == {0, 2} \cup { 8 * k + r : k \in 1..MaxRecords, r \in {0, 2} }

\* the device file of n bytes repeating the pattern pat
DevFile(pat, n) == [i \in 1..n |-> pat[((i - 1) % Len(pat)) + 1]]

\* the elements of the set of positions S, ascending, as a sequence
RECURSIVE Ascending(_)
Ascending(S) ==
    IF S = {} THEN << >>
    ELSE LET m == CHOOSE x \in S : \A y \in S : x <= y
         IN  << m >> \o Ascending(S \ {m})

\* --------------------------------------------------------------- state
VARIABLES
    channel,     \* IioInfo.channel
    chunk_size,  \* ChunkReader.chunk_size
    dev,         \* the bytes of the device file not yet read
    pc,          \* where view_fifo is: "for", "body", or "raised"
    chunk,       \* the loop variable of view_fifo
    eof,         \* a read has returned fewer than chunk_size bytes, or none
    last,        \* what the latest call of decorate did
    rows,        \* the rows written to stdout, up to MaxLog
    delivered,   \* the chunks ChunkReader.next has returned, up to MaxLog
    decoded      \* the arguments of the calls of decorate, up to MaxLog

vars == << channel, chunk_size, dev, pc, chunk, eof, last, rows, delivered, decoded >>

\* append to a record of at most MaxLog entries
Log(log, x) == IF Len(log) < MaxLog THEN Append(log, x) ELSE log

NoCall == [raised |-> FALSE, ret |-> << >>, steps |-> << >>]

\* IioInfo.__init__: one IioChannel per *_en file, whatever the file holds,
\* and the reader of the device file with the chunk size of these channels
Init ==
    /\ \E present \in SUBSET (1..Len(ScanNames)) :
       \E index \in [present -> IndexLines], en \in [present -> EnLines] :
       \E typ \in [present -> UNION { TypeLines(ScanNames[i]) : i \in present }] :
       \E cal \in [present -> UNION { Calibrations(ScanNames[i]) : i \in present }] :
          /\ \A i, j \in present : i # j => index[i] # index[j]
          /\ Cardinality({i \in present : en[i] = << "0", "\n" >>}) <= MaxDisabled
          /\ \A i \in present : typ[i] \in TypeLines(ScanNames[i])
          /\ \A i \in present : cal[i] \in Calibrations(ScanNames[i])
          /\ channel = [k \in 1..Cardinality(present) |->
                          LET i == Ascending(present)[k]
                          IN  IioChannel(ScanNames[i], en[i], index[i], typ[i],
                                         cal[i][1], cal[i][2])]
    /\ chunk_size = get_chunk_size(channel)
    /\ \E p \in 1..Len(Patterns), n \in DevLens : dev = DevFile(Patterns[p], n)
    /\ pc = "for"
    /\ chunk = << >>
    /\ eof = FALSE
    /\ last = NoCall
    /\ rows = << >>
    /\ delivered = << >>
    /\ decoded = << >>

\* file.read(size) at the current position: size bytes, or what is left
read(size) == PySlice(dev, 0, size)

\* ChunkReader.next, called by the for statement of view_fifo: it returns
\* what read returns and never ends the iteration
next ==
    /\ pc = "for"
    /\ chunk' = read(chunk_size)
    /\ dev' = PySlice(dev, Len(read(chunk_size)), Len(dev))
    /\ eof' = (eof \/ Len(read(chunk_size)) < chunk_size \/ read(chunk_size) = << >>)
    /\ delivered' = Log(delivered, read(chunk_size))
    /\ pc' = "body"
    /\ UNCHANGED << channel, chunk_size, last, rows, decoded >>

\* the body decorating a chunk it reads itself instead of the loop's
bodyRereads ==
    /\ pc = "body"
    /\ last' = decorate(channel, read(chunk_size))
    /\ decoded' = Log(decoded, read(chunk_size))
    /\ dev' = PySlice(dev, Len(read(chunk_size)), Len(dev))
    /\ IF last'.raised
       THEN pc' = "raised" /\ rows' = rows
       ELSE pc' = "for" /\ rows' = Log(rows, last'.ret)
    /\ UNCHANGED << channel, chunk_size, chunk, eof, delivered >>

\* the body of the for statement: decorate the chunk and write its row; a
\* struct.error of decorate leaves view_fifo.  The clock of line 151 is
\* taken to advance between iterations, so that line 152 does not divide
\* by zero, and the writes of lines 156-159 succeed for every value.
body ==
    /\ pc = "body"
    /\ last' = decorate(channel, chunk)
    /\ decoded' = Log(decoded, chunk)
    /\ IF last'.raised
       THEN pc' = "raised" /\ rows' = rows
       ELSE pc' = "for" /\ rows' = Log(rows, last'.ret)
    /\ UNCHANGED << channel, chunk_size, dev, chunk, eof, delivered >>

Next == next \/ body

Spec == Init /\ [][Next]_vars

\* the loop of view_fifo keeps running while it can
FairSpec == Spec /\ WF_vars(Next)

\* --------------------------------------------------------------- claims
\* decorate has been called, and last and chunk are that call's
Returned == pc # "body" /\ decoded # << >>

\* the smallest multiple of 8 that is at least n
RoundUp8(n) == CHOOSE m \in n..(n + 7) : m % 8 = 0

\* the cursor that the walk of the latest call has reached
FinalCursor ==
    IF last.steps = << >> THEN 0 ELSE last.steps[Len(last.steps)].byte_end

\* the index line of a channel as an integer
IndexInt(chan) == Digits(SubSeq(chan.index, 1, Len(chan.index) - 1), 0)

Enabled(chan) == chan.enabled = << "1", "\n" >>

\* C1: decode of a byte string whose length differs from totalSize fails
\* with a short-read error and returns no values.
C1_ShortReadRejected ==
    (Returned /\ Len(chunk) # chunk_size) => (last.raised /\ last.ret = << >>)

\* C2: the chunk size equals the final cursor of the decoder's walk rounded
\* up to a multiple of 8, and no channel's byteEnd exceeds it.
C2_ChunkSizeCoversWalk ==
    Returned =>
      /\ \A k \in 1..Len(last.steps) : last.steps[k].byte_end <= chunk_size
      /\ ~last.raised => chunk_size = RoundUp8(FinalCursor)

\* C3: decode emits one pair per channel, in ascending order of the index
\* taken as an integer, and places the fields in that order.
C3_AscendingIntegerIndex ==
    Returned =>
      /\ \A i, j \in 1..Len(last.steps) :
            i < j => IndexInt(last.steps[i].chan) < IndexInt(last.steps[j].chan)
      /\ ~last.raised =>
            /\ Len(last.ret) = Len(channel)
            /\ \A k \in 1..Len(last.ret) : last.ret[k][1] = last.steps[k].chan.name

\* C4: a channel whose enabled flag is false contributes no bytes to
\* totalSize, occupies no byte span and produces no decoded value.
C4_OnlyEnabledChannels ==
    /\ chunk_size = RoundUp8(SumLen(SelectSeq(channel, Enabled)))
    /\ \A k \in 1..Len(last.steps) : Enabled(last.steps[k].chan)

\* the sign/width tokens that have a width
KnownTokens ==
    { << "s", "8" >>, << "u", "8" >>, << "s", "1", "6" >>, << "u", "1", "6" >>,
      << "s", "3", "2" >>, << "u", "3", "2" >>, << "s", "6", "4" >>, << "u", "6", "4" >> }

\* the text of a type line between its first ":" and its first "/"
TokenOf(typ) ==
    LET colon == CHOOSE i \in 1..Len(typ) : typ[i] = ":" /\ \A j \in 1..(i - 1) : typ[j] # ":"
        slash == CHOOSE i \in 1..Len(typ) : typ[i] = "/" /\ \A j \in 1..(i - 1) : typ[j] # "/"
    IN  [i \in 1..(slash - colon - 1) |-> typ[colon + i]]

KnownType(chan) == TokenOf(chan.typ) \in KnownTokens

\* the steps of the latest call that a value was emitted for
Emitted == 1..Len(last.ret)

\* C5: a channel named "timestamp" is read from the cursor rounded up to
\* the next multiple of 8 (a gap of 0 to 7 bytes, none when the cursor is
\* aligned); no other channel's start is rounded.
C5_TimestampAligned ==
    /\ \A k \in 1..Len(last.steps) :
         LET st == last.steps[k]
         IN  /\ st.chan.name # "timestamp" => st.byte_start = st.cursor
             /\ st.chan.name = "timestamp" =>
                  /\ st.byte_start % 8 = 0
                  /\ st.byte_start - st.cursor \in 0..7
                  /\ st.cursor % 8 = 0 => st.byte_start = st.cursor
    /\ Returned =>
         \A k \in Emitted :
           LET st == last.steps[k]
               from == RoundUp8(st.cursor)
           IN  (st.chan.name = "timestamp" /\ st.chan.typ_len > 0) =>
                 last.ret[k][2] =
                   Scaled(st.chan, unpack(st.chan.typ_str,
                                          SubSeq(chunk, from + 1, from + st.chan.typ_len)))

\* a timestamp of non-zero width was decoded behind a gap
C5_Witness ==
    /\ Returned
    /\ \E k \in Emitted :
         /\ last.steps[k].chan.name = "timestamp"
         /\ last.steps[k].chan.typ_len > 0
         /\ last.steps[k].cursor % 8 # 0

\* byte_end of the last channel of known type before step k, 0 if none
RECURSIVE LastEnd(_)
LastEnd(k) ==
    IF k = 1 THEN 0
    ELSE IF KnownType(last.steps[k - 1].chan) THEN last.steps[k - 1].byte_end
    ELSE LastEnd(k - 1)

\* C6: a channel whose token is not one of s8 .. u64 has width 0, adds
\* nothing to the chunk size, decodes to 0 and leaves the cursor where the
\* previous channel of non-zero width ended.
C6_UnknownTypeZeroWidth ==
    /\ \A i \in 1..Len(channel) : ~KnownType(channel[i]) => channel[i].typ_len = 0
    /\ chunk_size = RoundUp8(SumLen(SelectSeq(channel, KnownType)))
    /\ \A k \in 1..Len(last.steps) :
         LET st == last.steps[k]
         IN  ~KnownType(st.chan) =>
               /\ k \in Emitted => last.ret[k] = << st.chan.name, Wide(0) >>
               /\ k < Len(last.steps) =>
                    /\ last.steps[k + 1].cursor = st.cursor
                    /\ last.steps[k + 1].cursor = LastEnd(k)

\* a timestamp of unknown type met an unaligned cursor, and the next
\* channel was decoded
C6_Witness ==
    /\ Returned
    /\ ~last.raised
    /\ \E k \in 1..(Len(last.steps) - 1) :
         /\ ~KnownType(last.steps[k].chan)
         /\ last.steps[k].chan.name = "timestamp"
         /\ last.steps[k].cursor % 8 # 0
         /\ last.steps[k + 1].chan.typ_len > 0

\* the integer that the bytes hold, by the byte order and signedness that
\* the type line names
RawOf(typ, bytes) ==
    LET n == Len(bytes)
        be == SubSeq(typ, 1, 2) = << "b", "e" >>
        lsb == [i \in 1..n |-> IF be THEN bytes[n + 1 - i] ELSE bytes[i]]
        magnitude == [i \in 1..WideLen |-> IF i <= n THEN lsb[i] ELSE 0]
        two_n == [i \in 1..WideLen |-> IF i = n + 1 THEN 1 ELSE 0]
    IN  IF Head(TokenOf(typ)) = "s" /\ lsb[n] >= 128
        THEN WAdd(magnitude, WNeg(two_n)) ELSE magnitude

\* the same for one or two bytes, in integer arithmetic
RawInt(typ, bytes) ==
    LET be == SubSeq(typ, 1, 2) = << "b", "e" >>
        u == IF Len(bytes) = 1 THEN bytes[1]
             ELSE IF be THEN bytes[1] * 256 + bytes[2] ELSE bytes[2] * 256 + bytes[1]
        half == IF Len(bytes) = 1 THEN 128 ELSE 32768
    IN  IF Head(TokenOf(typ)) = "s" /\ u >= half THEN u - 2 * half ELSE u

C8_EveryChannelAdvances ==
    \A k \in 1..Len(last.steps) :
      LET st == last.steps[k]
      IN  /\ st.byte_start =
               (IF st.chan.name = "timestamp" THEN RoundUp8(st.cursor) ELSE st.cursor)
          /\ st.byte_end = st.byte_start + st.chan.typ_len
          /\ k < Len(last.steps) => last.steps[k + 1].cursor = st.byte_end

\* C8, amended: that holds of every channel of non-zero width; a channel
\* of width 0 leaves the cursor where it was, also when it is named
\* "timestamp"; spans of non-zero width never overlap and the cursor with
\* which successive channels are entered never decreases.
C8_NonZeroChannelsAdvance ==
    /\ \A k \in 1..Len(last.steps) :
         LET st == last.steps[k]
         IN  /\ st.chan.typ_len > 0 =>
                  /\ st.byte_start =
                       (IF st.chan.name = "timestamp" THEN RoundUp8(st.cursor) ELSE st.cursor)
                  /\ st.byte_end = st.byte_start + st.chan.typ_len
                  /\ k < Len(last.steps) => last.steps[k + 1].cursor = st.byte_end
             /\ (st.chan.typ_len = 0 /\ k < Len(last.steps)) =>
                  last.steps[k + 1].cursor = st.cursor
             /\ k < Len(last.steps) => last.steps[k + 1].cursor >= st.cursor
    /\ \A i, j \in 1..Len(last.steps) :
         (i < j /\ last.steps[i].chan.typ_len > 0 /\ last.steps[j].chan.typ_len > 0)
           => last.steps[i].byte_end <= last.steps[j].byte_start

\* a "timestamp" of width 0 met an unaligned cursor between two channels
\* of non-zero width
C8_Witness ==
    /\ Returned
    /\ ~last.raised
    /\ \E k \in 2..(Len(last.steps) - 1) :
         /\ last.steps[k].chan.name = "timestamp"
         /\ last.steps[k].chan.typ_len = 0
         /\ last.steps[k].cursor % 8 # 0
         /\ last.steps[k - 1].chan.typ_len > 0
         /\ last.steps[k + 1].chan.typ_len > 0

\* C9: every chunk the reader delivers is passed to decorate exactly once,
\* in arrival order, and the next chunk is requested only when decorate has
\* returned for the previous one.
C9_EachChunkDecodedOnce ==
    /\ Len(decoded) <= Len(delivered)
    /\ decoded = SubSeq(delivered, 1, Len(decoded))
    /\ pc = "body" =>
         /\ Len(delivered) = Len(decoded) + 1 \/ Len(decoded) = MaxLog
         /\ Len(delivered) < MaxLog => delivered[Len(delivered)] = chunk
    /\ pc # "body" =>
         /\ Len(delivered) = Len(decoded)
         /\ (decoded # << >> /\ Len(decoded) < MaxLog) => decoded[Len(decoded)] = chunk

\* two different chunks have been delivered and decoded, and the loop goes on
C9_Witness ==
    /\ pc = "for"
    /\ Len(decoded) >= 2
    /\ decoded[1] # decoded[2]
    /\ Len(rows) >= 2

\* C10: once a read has come back short or empty, the loop of view_fifo
\* eventually stops and writes no further row.
C10_StopsAfterExhaustion ==
    /\ [](eof => <>(pc = "raised"))
    /\ [][eof => rows' = rows]_vars

====
